---- MODULE Spec2Model ----
(***************************************************************************)
(* A state-machine model of nameko/service.py: ManagedThreadContainer and  *)
(* ServiceContainer (stop / kill / wait, the registry of managed threads,  *)
(* the bounded worker pool and the worker step sequence of _run_worker).   *)
(*                                                                         *)
(* Scheduling is eventlet's: greenthreads run until they block.  An action *)
(* of the model is one such run: from one blocking point of a greenthread  *)
(* to its next one, with every callback (link) that runs in between.       *)
(***************************************************************************)
EXTENDS Integers, FiniteSets, Sequences, TLC

\* ------------------------------------------------------------------ bounds
\* Number of greenthreads (workers and managed threads) ever spawned.
MaxTasks == 2

\* ---------------------------------------------------------------- universe
Tasks == 1..MaxTasks
\* Greenthreads of the orchestration layer that call stop(), kill(), wait().
Stopper == 0 - 1
Killer == 0 - 2
Callers == {Stopper, Killer}
\* A context is whatever runs container code: a caller, or a task (its exit
\* handler runs _handle_thread_exited, and so kill(), in the task's greenthread).
Ctx == Callers \cup Tasks

None == "None"
\* The exception a service method raises (a call error).
CallError == "call_error"
\* The unhandled exception that escapes task t (hook, result handler or body).
TaskError(t) == <<"bug1", "bug2", "bug3", "bug4", "bug5">>[t]
\* The cause an orchestration-layer caller passes to kill(exc).
CallerCause(c) == IF c = Killer THEN "boom" ELSE "boom2"
\* What Event.send() raises when the event has already been sent.
AssertionError == "AssertionError"
\* What a call that lacks a required argument raises.
TypeError == "TypeError"
\* The exception a provider's prepare(), start() or stop() raises.
HookError == "hook_error"
GreenletExit == "GreenletExit"

EntrypointUniverse == {"ep1"}
InjectionUniverse == {"inj1", "inj2"}

VARIABLES
    config,              \* the 'max_workers' entry of ServiceContainer.config
    lifecycle,           \* providers on which prepare() / start() were called, returned
    max_workers,         \* ServiceContainer.max_workers (size of _worker_pool)
    dependencies,        \* [entrypoints, injections]: the DependencySet
    died,                \* the _died Event: [ready, exc]
    fired,               \* log of the sends that set _died: <<[by, op, exc]>>
    active_threads,      \* _active_threads
    coroutines_running,  \* greenthreads holding a slot of _worker_pool
    task,                \* per task: kind, position in its body, locals
    called,              \* per live worker: how often each hook was called
    returned,            \* per live worker: how often each hook returned
    inv,                 \* per context: its stop()/kill()/wait() invocation
    stopped_eps,         \* entrypoint providers whose stop() has returned
    lateSpawn            \* a worker entered the pool after its entrypoint stopped

vars == <<config, lifecycle, max_workers, dependencies, died, fired, active_threads,
          coroutines_running, task, called, returned, inv, stopped_eps,
          lateSpawn>>

\* ------------------------------------------------------------ dependencies
Entrypoints == dependencies.entrypoints
Injections == dependencies.injections
AllDeps == Entrypoints \cup Injections

\* The worker hooks in the order _run_worker goes through them, and the
\* providers each one fans out to (injections.all or all).
HookOrder == <<"inject", "worker_setup", "method", "handle_result",
               "worker_result", "worker_teardown", "release">>
Service == "service"
Handler == "handler"
HookTargets(h) ==
    CASE h = "inject" -> Injections
      [] h = "worker_setup" -> AllDeps
      [] h = "method" -> {Service}
      [] h = "handle_result" -> {Handler}
      [] h = "worker_result" -> Injections
      [] h = "worker_teardown" -> AllDeps
      [] h = "release" -> Injections
HookNames == {HookOrder[i] : i \in 1..Len(HookOrder)}
HookKeys == HookNames \X (EntrypointUniverse \cup InjectionUniverse \cup {Service, Handler})

\* dependencies.<set>.all.<hook>(...) calls the hook on every provider of the
\* set concurrently and returns when the last of them has returned: p is the
\* provider returning, pending the providers that have not returned yet.
FanOutJoined(pending, p) == pending = {p}

\* The logs `called` and `returned` count calls per <<hook, target>>; a pair
\* that is not in a log has count 0.
NoCalls == [k \in {} |-> 0]
Count(log, k) == IF k \in DOMAIN log THEN log[k] ELSE 0
Counted(log, keys) ==
    [k \in DOMAIN log \cup keys |->
        Count(log, k) + (IF k \in keys THEN 1 ELSE 0)]
Index(h) == CHOOSE i \in 1..Len(HookOrder) : HookOrder[i] = h

\* ------------------------------------------------------------------- state
NoTask == [kind |-> "none", pc |-> "unborn", pending |-> {}, provider |-> None,
           handle_result |-> FALSE, result |-> None, exc |-> None,
           args |-> {}, outcome |-> None]
Idle == [op |-> "none", pc |-> "idle", cause |-> None, pending |-> {},
         tokill |-> {}, timer |-> 0, timed_out |-> FALSE, result |-> None,
         inflight |-> {}]

\* Event.ready()
Ready == died.ready

Spawned == {t \in Tasks : task[t].kind # "none"}
NextId == Cardinality(Spawned) + 1
Alive(t) == task[t].kind # "none" /\ task[t].pc \notin {"unborn", "blocked", "dead"}
Blocked == {t \in Tasks : task[t].pc = "blocked"}
\* Workers executing _run_worker (spawned and not yet exited).
InFlight == {t \in Tasks : task[t].kind = "worker" /\ Alive(t)}

\* waitall() that returns as soon as any worker has left the pool.
WakeDrainEarly(i, t) ==
    IF task[t].kind = "worker"
    THEN [c \in Ctx |-> IF i[c].pc = "waitall"
                        THEN [i[c] EXCEPT !.pc = "drained"] ELSE i[c]]
    ELSE i

\* ------------------------------------------------------- exits and kill()
\* GreenPool._spawn_done as waitall() sees it: the pool's "no coroutines
\* running" event is sent when the last running worker leaves and no spawn is
\* waiting for a slot; every stop() blocked in waitall() becomes runnable.
WakeDrain(i, t) ==
    IF task[t].kind = "worker" /\ coroutines_running \ {t} = {} /\ Blocked = {}
    THEN [c \in Ctx |-> IF i[c].pc = "waitall"
                        THEN [i[c] EXCEPT !.pc = "drained"] ELSE i[c]]
    ELSE i

\* The kill timeouts started so far; timers of one duration expire in the
\* order they were started in.
TimersStarted == Cardinality({c \in Ctx : inv[c].timer > 0})

\* kill(exc) up to its first blocking point: the ready() check, then the
\* fan-out of kill(exc) to every dependency under the kill timeout.
KillCall(exc) ==
    IF Ready
    THEN [Idle EXCEPT !.op = "kill", !.pc = "returned", !.cause = exc,
                      !.result = "noop"]
    ELSE [Idle EXCEPT !.op = "kill", !.pc = "kill_hooks", !.cause = exc,
                      !.pending = AllDeps, !.timer = TimersStarted + 1]

\* An exit handler that treats a thread killed by the container as failed.
HandleExitEscalatesKilled(i, t, outcome) ==
    IF outcome = "ok" THEN i
    ELSE [i EXCEPT ![t] = KillCall(outcome)]

\* What _handle_thread_exited does after removing the thread: nothing for a
\* thread that ended normally or by GreenletExit, kill(exc) for any other
\* exception.  i is the invocation table to update.
HandleExit(i, t, outcome) ==
    IF outcome \in {"ok", GreenletExit} THEN i
    ELSE [i EXCEPT ![t] = KillCall(outcome)]

\* Greenthread t ends with `outcome`; its links run in its own greenthread
\* before anything else does: the pool's _spawn_done, then
\* _handle_thread_exited.  i is the invocation table as the acting context
\* leaves it.  The log of the worker's hooks goes with it.
ThreadExited(t, outcome, i) ==
    /\ active_threads' = active_threads \ {t}
    /\ coroutines_running' = coroutines_running \ {t}
    /\ task' = [task EXCEPT ![t] = [NoTask EXCEPT !.kind = task[t].kind,
                                                  !.pc = "dead",
                                                  !.exc = task[t].exc,
                                                  !.outcome = outcome]]
    /\ called' = [called EXCEPT ![t] = NoCalls]
    /\ returned' = [returned EXCEPT ![t] = NoCalls]
    /\ inv' = HandleExit(WakeDrain(i, t), t, outcome)

\* An Event that lets itself be sent again.
SendAgain(c, exc, i) ==
    /\ died' = [ready |-> TRUE, exc |-> exc]
    /\ fired' = Append(fired, [by |-> c, op |-> inv[c].op, exc |-> exc])
    /\ inv' = [i EXCEPT ![c].pc = "returned", ![c].tokill = {},
                        ![c].pending = {}, ![c].result = "done"]

\* Event.send(result, exc) on _died by context c: an AssertionError when the
\* event was sent before.  i is the invocation table as c leaves it.
Send(c, exc, i) ==
    IF Ready
    THEN /\ inv' = [i EXCEPT ![c].pc = "raised", ![c].tokill = {},
                             ![c].pending = {},
                             ![c].result = AssertionError]
         /\ UNCHANGED <<died, fired>>
    ELSE /\ died' = [ready |-> TRUE, exc |-> exc]
         /\ fired' = Append(fired, [by |-> c, op |-> inv[c].op, exc |-> exc])
         /\ inv' = [i EXCEPT ![c].pc = "returned", ![c].tokill = {},
                             ![c].pending = {}, ![c].result = "done"]

\* The signal stop() and kill() end with: _died.send(None) and
\* _died.send_exception(exc).
FinalSend(c, i) ==
    IF inv[c].op = "stop" THEN Send(c, None, i) ELSE Send(c, inv[c].cause, i)

\* _kill_active_threads from the point where `rest` of its snapshot is left:
\* gt.kill() of a dead greenthread returns at once; gt.kill() of a live one
\* runs the victim to its death (GreenletExit, then its links) and yields.
\* With nothing left to kill the caller goes on and sends _died.
KillLoop(c, rest, i) ==
    LET live == rest \cap active_threads IN
    IF live = {}
    THEN /\ FinalSend(c, i)
         /\ UNCHANGED <<active_threads, coroutines_running, task, called,
                        returned>>
    ELSE /\ \E t \in live :
              ThreadExited(t, GreenletExit,
                           [i EXCEPT ![c].pc = "killing", ![c].pending = {},
                                     ![c].tokill = rest \ {t}])
         /\ UNCHANGED <<died, fired>>

\* ------------------------------------------------------------ spawn_worker
\* The greenthread of a worker as _worker_pool.spawn creates it: scheduled,
\* not yet run.
NewWorker(e, hr) ==
    [NoTask EXCEPT !.kind = "worker", !.pc = "spawned", !.provider = e,
                   !.handle_result = hr]

\* A pool that admits one worker more than its size.
PoolFullOffByOne == Cardinality(coroutines_running) > max_workers

\* GreenPool.spawn blocks its caller while the pool has no free slot.
PoolFull == Cardinality(coroutines_running) >= max_workers

\* spawn_worker once it holds a slot: the greenthread is created, added to the
\* pool and to _active_threads, and linked to _handle_thread_exited.
Admit(t, e, hr) ==
    /\ task' = [task EXCEPT ![t] = NewWorker(e, hr)]
    /\ coroutines_running' = coroutines_running \cup {t}
    /\ active_threads' = active_threads \cup {t}
    /\ lateSpawn' = (lateSpawn \/ e \in stopped_eps)

\* Entrypoint e calls spawn_worker(e, args, kwargs, handle_result=...).
SpawnWorker(e, hr) ==
    /\ NextId \in Tasks
    /\ e \in Entrypoints
    /\ IF PoolFull
       THEN /\ task' = [task EXCEPT ![NextId] =
                           [NewWorker(e, hr) EXCEPT !.pc = "blocked"]]
            /\ UNCHANGED <<coroutines_running, active_threads, lateSpawn>>
       ELSE Admit(NextId, e, hr)
    /\ UNCHANGED <<config, lifecycle, max_workers, dependencies, died, fired, called, returned,
                   inv, stopped_eps>>

\* A spawn_worker call blocked on the pool gets the slot a worker freed.
SpawnWorkerResume(t) ==
    /\ task[t].pc = "blocked"
    /\ ~PoolFull
    /\ Admit(t, task[t].provider, task[t].handle_result)
    /\ UNCHANGED <<config, lifecycle, max_workers, dependencies, died, fired, called, returned,
                   inv, stopped_eps>>

\* ------------------------------------------------------------- _run_worker
\* _run_worker with worker_teardown ahead of worker_result.
NextHookTeardownFirst(h, hr) ==
    CASE h = "inject" -> "worker_setup"
      [] h = "worker_setup" -> "method"
      [] h = "method" -> IF hr THEN "handle_result" ELSE "worker_teardown"
      [] h = "handle_result" -> "worker_teardown"
      [] h = "worker_teardown" -> "worker_result"
      [] h = "worker_result" -> "release"
      [] h = "release" -> "done"

\* The step that follows hook h in _run_worker; "done" after release.
NextHook(h, hr) ==
    CASE h = "inject" -> "worker_setup"
      [] h = "worker_setup" -> "method"
      [] h = "method" -> IF hr THEN "handle_result" ELSE "worker_result"
      [] h = "handle_result" -> "worker_result"
      [] h = "worker_result" -> "worker_teardown"
      [] h = "worker_teardown" -> "release"
      [] h = "release" -> "done"

\* Hooks called with the result alone, the error dropped.
HookArgsDropExc(h, result, exc) ==
    IF h \in {"handle_result", "worker_result"}
    THEN {<<h, result, None>>} ELSE {}

\* The (result, exc) a hook that takes them is called with.
HookArgs(h, result, exc) ==
    IF h \in {"handle_result", "worker_result"}
    THEN {<<h, result, exc>>} ELSE {}

\* Worker t, with locals result and exc, calls hook h on all its targets
\* (a fan-out: all are called, the worker waits for all to return).
CallHook(t, h, result, exc) ==
    /\ task' = [task EXCEPT ![t].pc = h, ![t].pending = HookTargets(h),
                            ![t].result = result, ![t].exc = exc,
                            ![t].args = @ \cup HookArgs(h, result, exc)]
    /\ called' = [called EXCEPT ![t] =
                    Counted(@, {<<h, p>> : p \in HookTargets(h)})]

\* The log after target p of hook h has returned to worker t.
Returned(t, h, p) == [returned EXCEPT ![t] = Counted(@, {<<h, p>>})]

\* Worker t goes from the completed step h to the next one, or returns from
\* _run_worker; p is the target that returned last.
Proceed(t, h, p, result, exc) ==
    LET n == NextHook(h, task[t].handle_result) IN
    IF n = "done"
    THEN ThreadExited(t, "ok", inv)
    ELSE /\ CallHook(t, n, result, exc)
         /\ returned' = Returned(t, h, p)
         /\ UNCHANGED <<inv, active_threads, coroutines_running>>

\* The worker greenthread runs for the first time: injections.all.inject.
WorkerStart(t) ==
    /\ task[t].pc = "spawned"
    /\ CallHook(t, "inject", None, None)
    /\ UNCHANGED <<config, lifecycle, max_workers, dependencies, died, fired, active_threads,
                   coroutines_running, returned, inv, stopped_eps, lateSpawn>>

FanOutHooks == {"inject", "worker_setup", "worker_result", "worker_teardown",
                "release"}

\* Provider p returns from the hook worker t is waiting in; when it is the
\* last one the fan-out is complete and the worker goes on.
HookReturn(t, p) ==
    /\ task[t].pc \in FanOutHooks
    /\ p \in task[t].pending
    /\ IF FanOutJoined(task[t].pending, p)
       THEN Proceed(t, task[t].pc, p, task[t].result, task[t].exc)
       ELSE /\ task' = [task EXCEPT ![t].pending = @ \ {p}]
            /\ returned' = Returned(t, task[t].pc, p)
            /\ UNCHANGED <<called, inv, active_threads, coroutines_running>>
    /\ UNCHANGED <<config, lifecycle, max_workers, dependencies, died, fired, stopped_eps,
                   lateSpawn>>

\* Provider p raises in the hook worker t is waiting in: nothing in
\* _run_worker catches it, the greenthread dies with the exception.
HookRaise(t, p) ==
    /\ task[t].pc \in FanOutHooks
    /\ p \in task[t].pending
    /\ ThreadExited(t, TaskError(t), inv)
    /\ UNCHANGED <<config, lifecycle, max_workers, dependencies, died, fired, stopped_eps,
                   lateSpawn>>

\* try: result = method(...)            -- the method returns
MethodReturn(t) ==
    /\ task[t].pc = "method"
    /\ Proceed(t, "method", Service, "value", None)
    /\ UNCHANGED <<config, lifecycle, max_workers, dependencies, died, fired, stopped_eps,
                   lateSpawn>>

\* _run_worker without its try/except: the method's exception escapes.
CallErrorEscapes(t) == ThreadExited(t, CallError, inv)

\* except Exception as e: exc = e       -- the method raises
CatchCallError(t) == Proceed(t, "method", Service, None, CallError)

MethodRaise(t) ==
    /\ task[t].pc = "method"
    /\ CatchCallError(t)
    /\ UNCHANGED <<config, lifecycle, max_workers, dependencies, died, fired, stopped_eps,
                   lateSpawn>>

\* handle_result(worker_ctx, result, exc) returns
HandleResultReturn(t) ==
    /\ task[t].pc = "handle_result"
    /\ Proceed(t, "handle_result", Handler, task[t].result, task[t].exc)
    /\ UNCHANGED <<config, lifecycle, max_workers, dependencies, died, fired, stopped_eps,
                   lateSpawn>>

\* handle_result raises: not caught, the greenthread dies with the exception.
HandleResultRaise(t) ==
    /\ task[t].pc = "handle_result"
    /\ ThreadExited(t, TaskError(t), inv)
    /\ UNCHANGED <<config, lifecycle, max_workers, dependencies, died, fired, stopped_eps,
                   lateSpawn>>

\* ---------------------------------------------------- spawn_managed_thread
\* spawn_managed_thread without its _active_threads.add(gt).
SpawnManagedThreadUnregistered ==
    /\ NextId \in Tasks
    /\ task' = [task EXCEPT ![NextId] =
                   [NoTask EXCEPT !.kind = "thread", !.pc = "running"]]
    /\ UNCHANGED <<config, lifecycle, max_workers, dependencies, died, fired,
                   active_threads, coroutines_running, called, returned, inv,
                   stopped_eps, lateSpawn>>

\* A provider calls spawn_managed_thread(run_method).
SpawnManagedThread ==
    /\ NextId \in Tasks
    /\ task' = [task EXCEPT ![NextId] =
                   [NoTask EXCEPT !.kind = "thread", !.pc = "running"]]
    /\ active_threads' = active_threads \cup {NextId}
    /\ UNCHANGED <<config, lifecycle, max_workers, dependencies, died, fired, coroutines_running,
                   called, returned, inv, stopped_eps, lateSpawn>>

\* run_method returns.
ThreadReturn(t) ==
    /\ task[t].pc = "running"
    /\ ThreadExited(t, "ok", inv)
    /\ UNCHANGED <<config, lifecycle, max_workers, dependencies, died, fired, stopped_eps,
                   lateSpawn>>

\* run_method raises.
ThreadRaise(t) ==
    /\ task[t].pc = "running"
    /\ ThreadExited(t, TaskError(t), inv)
    /\ UNCHANGED <<config, lifecycle, max_workers, dependencies, died, fired, stopped_eps,
                   lateSpawn>>

\* ------------------------------------------------------------------ stop()
\* Each greenthread of the orchestration layer makes one call, or start() and,
\* once that has returned, one call more.
Free(c) ==
    \/ inv[c].pc = "idle"
    \/ inv[c].op = "start" /\ inv[c].pc = "returned"

\* stop() without its ready() check.
StopCallUnchecked ==
    [Idle EXCEPT !.op = "stop", !.pc = "ep_stop", !.pending = Entrypoints,
                 !.inflight = InFlight]

\* stop() up to its first blocking point: the ready() check, then
\* _handle_container_stop's entrypoints.all.stop().  The invocation keeps
\* note of the workers that were in flight when it was called.
StopCall ==
    IF Ready
    THEN [Idle EXCEPT !.op = "stop", !.pc = "returned", !.result = "noop"]
    ELSE [Idle EXCEPT !.op = "stop", !.pc = "ep_stop", !.pending = Entrypoints,
                      !.inflight = InFlight]

CallStop(c) ==
    /\ c \in Callers
    /\ Free(c)
    /\ inv' = [inv EXCEPT ![c] = StopCall]
    /\ UNCHANGED <<config, lifecycle, max_workers, dependencies, died, fired, active_threads,
                   coroutines_running, task, called, returned, stopped_eps,
                   lateSpawn>>

\* _handle_container_stop without its waitall().
AfterEntrypointsNoWait(i) ==
    [i EXCEPT !.pc = "inj_stop", !.pending = Injections]

\* The invocation after entrypoints.all.stop() has returned:
\* _worker_pool.waitall() returns at once when no worker is running and blocks
\* otherwise; then injections.all.stop().
AfterEntrypoints(i) ==
    IF coroutines_running = {}
    THEN [i EXCEPT !.pc = "inj_stop", !.pending = Injections]
    ELSE [i EXCEPT !.pc = "waitall", !.pending = {}]

\* Entrypoint p returns from the stop() that invocation c is waiting in; when
\* it is the last one, stop() goes on to waitall().
EntrypointStopReturn(c, p) ==
    /\ inv[c].pc = "ep_stop"
    /\ p \in inv[c].pending
    /\ stopped_eps' = stopped_eps \cup {p}
    /\ inv' = [inv EXCEPT ![c] = IF FanOutJoined(inv[c].pending, p)
                                 THEN AfterEntrypoints(inv[c])
                                 ELSE [inv[c] EXCEPT !.pending = @ \ {p}]]
    /\ UNCHANGED <<config, lifecycle, max_workers, dependencies, died, fired, active_threads,
                   coroutines_running, task, called, returned, lateSpawn>>

\* waitall() returns to the stop() it had blocked: injections.all.stop().
PoolDrained(c) ==
    /\ inv[c].pc = "drained"
    /\ inv' = [inv EXCEPT ![c].pc = "inj_stop", ![c].pending = Injections]
    /\ UNCHANGED <<config, lifecycle, max_workers, dependencies, died, fired, active_threads,
                   coroutines_running, task, called, returned, stopped_eps,
                   lateSpawn>>

\* Injection p returns from the stop() that invocation c is waiting in; when
\* it is the last one, stop() goes on: _kill_active_threads(), then
\* _died.send(None).
InjectionStopReturn(c, p) ==
    /\ inv[c].pc = "inj_stop"
    /\ p \in inv[c].pending
    /\ IF FanOutJoined(inv[c].pending, p)
       THEN KillLoop(c, active_threads, inv)
       ELSE /\ inv' = [inv EXCEPT ![c].pending = @ \ {p}]
            /\ UNCHANGED <<died, fired, active_threads, coroutines_running,
                           task, called, returned>>
    /\ UNCHANGED <<config, lifecycle, max_workers, dependencies, stopped_eps, lateSpawn>>

\* ------------------------------------------------------------------ kill()
CallKill(c) ==
    /\ c \in Callers
    /\ Free(c)
    /\ inv' = [inv EXCEPT ![c] = KillCall(CallerCause(c))]
    /\ UNCHANGED <<config, lifecycle, max_workers, dependencies, died, fired, active_threads,
                   coroutines_running, task, called, returned, stopped_eps,
                   lateSpawn>>

\* Provider p returns from the kill(exc) that invocation c is waiting in; when
\* it is the last one, dependencies.all.kill(exc) has returned within the
\* timeout and kill() goes on to _kill_active_threads() and
\* _died.send_exception(exc).
KillHookReturn(c, p) ==
    /\ inv[c].pc = "kill_hooks"
    /\ p \in inv[c].pending
    /\ IF FanOutJoined(inv[c].pending, p)
       THEN KillLoop(c, active_threads, inv)
       ELSE /\ inv' = [inv EXCEPT ![c].pending = @ \ {p}]
            /\ UNCHANGED <<died, fired, active_threads, coroutines_running,
                           task, called, returned>>
    /\ UNCHANGED <<config, lifecycle, max_workers, dependencies, stopped_eps, lateSpawn>>

\* _handle_container_kill without its timeout: kill() keeps waiting for the
\* providers.
KillWaitsForever(c) ==
    /\ inv[c].pc = "kill_hooks"
    /\ inv[c].pending # {}
    /\ UNCHANGED vars

\* eventlet.Timeout(KILL_TIMEOUT) expires while providers are still in
\* kill(exc): the Timeout is caught and kill() goes on without them.
KillTimeout(c) ==
    /\ inv[c].pc = "kill_hooks"
    /\ inv[c].pending # {}
    /\ \A d \in Ctx : inv[d].pc = "kill_hooks" => inv[d].timer >= inv[c].timer
    /\ KillLoop(c, active_threads, [inv EXCEPT ![c].timed_out = TRUE])
    /\ UNCHANGED <<config, lifecycle, max_workers, dependencies, stopped_eps, lateSpawn>>

\* _kill_active_threads resumes after a gt.kill().
KillNext(c) ==
    /\ inv[c].pc = "killing"
    /\ KillLoop(c, inv[c].tokill, inv)
    /\ UNCHANGED <<config, lifecycle, max_workers, dependencies, stopped_eps, lateSpawn>>

\* ------------------------------------------------------------------ wait()
\* A wait() that swallows the exception the event was sent with.
WaitResultSwallow ==
    [Idle EXCEPT !.op = "wait", !.pc = "returned", !.result = None]

\* _died.wait(): returns the result, or raises the exception, the event was
\* sent with; blocks while the event has not been sent.
WaitResult ==
    IF died.exc = None
    THEN [Idle EXCEPT !.op = "wait", !.pc = "returned", !.result = None]
    ELSE [Idle EXCEPT !.op = "wait", !.pc = "raised", !.result = died.exc]

WaitCall ==
    IF Ready THEN WaitResult ELSE [Idle EXCEPT !.op = "wait", !.pc = "waiting"]

CallWait(c) ==
    /\ c \in Callers
    /\ Free(c)
    /\ inv' = [inv EXCEPT ![c] = WaitCall]
    /\ UNCHANGED <<config, lifecycle, max_workers, dependencies, died, fired, active_threads,
                   coroutines_running, task, called, returned, stopped_eps,
                   lateSpawn>>

WaitWake(c) ==
    /\ inv[c].pc = "waiting"
    /\ Ready
    /\ inv' = [inv EXCEPT ![c] = WaitResult]
    /\ UNCHANGED <<config, lifecycle, max_workers, dependencies, died, fired, active_threads,
                   coroutines_running, task, called, returned, stopped_eps,
                   lateSpawn>>

\* ----------------------------------------------------------------- start()
\* start() without its first statement: start() is called on the providers
\* right away.
StartCallSkipsPrepare(c) ==
    /\ inv' = [inv EXCEPT ![c] = [Idle EXCEPT !.op = "start",
                                              !.pc = "start_hooks",
                                              !.pending = AllDeps]]
    /\ lifecycle' = [lifecycle EXCEPT !.start_called = AllDeps]

\* start() up to its first blocking point: dependencies.all.prepare().
StartCall(c) ==
    /\ inv' = [inv EXCEPT ![c] = [Idle EXCEPT !.op = "start", !.pc = "prepare",
                                              !.pending = AllDeps]]
    /\ lifecycle' = [lifecycle EXCEPT !.prepare_called = AllDeps]

CallStart(c) ==
    /\ c \in Callers
    /\ inv[c].pc = "idle"
    /\ lifecycle.prepare_called = {} /\ lifecycle.start_called = {}
    /\ StartCall(c)
    /\ UNCHANGED <<config, max_workers, dependencies, died, fired,
                   active_threads, coroutines_running, task, called, returned,
                   stopped_eps, lateSpawn>>

\* Provider p returns from prepare(); when it is the last one,
\* dependencies.all.prepare() has returned and start() goes on to
\* dependencies.all.start().
PrepareReturn(c, p) ==
    /\ inv[c].pc = "prepare"
    /\ p \in inv[c].pending
    /\ IF FanOutJoined(inv[c].pending, p)
       THEN /\ inv' = [inv EXCEPT ![c].pc = "start_hooks",
                                  ![c].pending = AllDeps]
            /\ lifecycle' = [lifecycle EXCEPT !.prepare_done = @ \cup {p},
                                              !.start_called = AllDeps]
       ELSE /\ inv' = [inv EXCEPT ![c].pending = @ \ {p}]
            /\ lifecycle' = [lifecycle EXCEPT !.prepare_done = @ \cup {p}]
    /\ UNCHANGED <<config, max_workers, dependencies, died, fired,
                   active_threads, coroutines_running, task, called, returned,
                   stopped_eps, lateSpawn>>

\* Provider p returns from start(); when it is the last one, start() returns.
StartReturn(c, p) ==
    /\ inv[c].pc = "start_hooks"
    /\ p \in inv[c].pending
    /\ inv' = [inv EXCEPT ![c] = IF FanOutJoined(inv[c].pending, p)
                                 THEN [inv[c] EXCEPT !.pc = "returned",
                                                     !.pending = {},
                                                     !.result = "done"]
                                 ELSE [inv[c] EXCEPT !.pending = @ \ {p}]]
    /\ lifecycle' = [lifecycle EXCEPT !.start_done = @ \cup {p}]
    /\ UNCHANGED <<config, max_workers, dependencies, died, fired,
                   active_threads, coroutines_running, task, called, returned,
                   stopped_eps, lateSpawn>>

\* An exception raised by a provider's life-cycle hook leaves the method of
\* the container that called the hook: nothing in start() or stop() catches
\* it.
HookErrorPropagates(i) ==
    [i EXCEPT !.pc = "raised", !.pending = {}, !.result = HookError]

\* Provider p raises in prepare() or in start().
StartHookRaise(c, p) ==
    /\ inv[c].pc \in {"prepare", "start_hooks"}
    /\ p \in inv[c].pending
    /\ inv' = [inv EXCEPT ![c] = HookErrorPropagates(inv[c])]
    /\ UNCHANGED <<config, lifecycle, max_workers, dependencies, died, fired,
                   active_threads, coroutines_running, task, called, returned,
                   stopped_eps, lateSpawn>>

\* Provider p raises in the stop() that invocation c is waiting in.
StopHookRaise(c, p) ==
    /\ inv[c].pc \in {"ep_stop", "inj_stop"}
    /\ p \in inv[c].pending
    /\ inv' = [inv EXCEPT ![c] = HookErrorPropagates(inv[c])]
    /\ UNCHANGED <<config, lifecycle, max_workers, dependencies, died, fired,
                   active_threads, coroutines_running, task, called, returned,
                   stopped_eps, lateSpawn>>

\* ------------------------------------------------------------ ServiceRunner
\* ServiceRunner.containers holds the container once runner.start() has
\* created it.
RunnerHasContainers == lifecycle.prepare_called # {}

\* ServiceRunner.kill(): SpawningProxy(self.containers).kill() calls
\* container.kill() with no argument, and kill(self, exc) has no default for
\* exc: the call raises TypeError before the body of kill() runs.  With no
\* container there is nothing to call.
RunnerKillCall ==
    IF RunnerHasContainers
    THEN [Idle EXCEPT !.op = "runner_kill", !.pc = "raised",
                      !.result = TypeError]
    ELSE [Idle EXCEPT !.op = "runner_kill", !.pc = "returned",
                      !.result = "noop"]

RunnerKill(c) ==
    /\ c \in Callers
    /\ Free(c)
    /\ inv' = [inv EXCEPT ![c] = RunnerKillCall]
    /\ UNCHANGED <<config, lifecycle, max_workers, dependencies, died, fired,
                   active_threads, coroutines_running, task, called, returned,
                   stopped_eps, lateSpawn>>

\* ------------------------------------------------------------ construction
MAX_WORKERS_DEFAULT == 10
Absent == 0 - 1

\* max_workers taken from the configuration as it is, the default only for a
\* missing key.
MaxWorkersNoFallback(cfg) ==
    IF cfg = Absent THEN MAX_WORKERS_DEFAULT ELSE cfg

\* self.max_workers = config.get(MAX_WOKERS_KEY, 10) or 10
MaxWorkersOf(cfg) ==
    IF cfg = Absent THEN MAX_WORKERS_DEFAULT
    ELSE IF cfg = 0 THEN MAX_WORKERS_DEFAULT ELSE cfg

\* No provider has had prepare() or start() called on it.
NoLifecycle == [prepare_called |-> {}, prepare_done |-> {},
                start_called |-> {}, start_done |-> {}]

\* The container after __init__ with the given config value and dependencies.
Constructed(cfg, eps, injs) ==
    /\ config = cfg
    /\ lifecycle = NoLifecycle
    /\ max_workers = MaxWorkersOf(cfg)
    /\ dependencies = [entrypoints |-> eps, injections |-> injs]
    /\ died = [ready |-> FALSE, exc |-> None]
    /\ fired = <<>>
    /\ active_threads = {}
    /\ coroutines_running = {}
    /\ task = [t \in Tasks |-> NoTask]
    /\ called = [t \in Tasks |-> NoCalls]
    /\ returned = [t \in Tasks |-> NoCalls]
    /\ inv = [c \in Ctx |-> Idle]
    /\ stopped_eps = {}
    /\ lateSpawn = FALSE

\* --------------------------------------------------------- specifications
\* The container's life cycle: one entrypoint, one injection, a pool of one
\* or two workers; a greenthread that may stop() or wait() and one that may
\* kill() or wait().
Init == \E cfg \in {1, 2} : Constructed(cfg, {"ep1"}, {"inj1"})

Next ==
    \/ \E e \in EntrypointUniverse : SpawnWorker(e, TRUE)
    \/ \E t \in Tasks : SpawnWorkerResume(t)
    \/ \E t \in Tasks : WorkerStart(t)
    \/ \E t \in Tasks, p \in AllDeps : HookReturn(t, p)
    \/ \E t \in Tasks, p \in AllDeps : HookRaise(t, p)
    \/ \E t \in Tasks : MethodReturn(t)
    \/ \E t \in Tasks : MethodRaise(t)
    \/ \E t \in Tasks : HandleResultReturn(t)
    \/ \E t \in Tasks : HandleResultRaise(t)
    \/ SpawnManagedThread
    \/ \E t \in Tasks : ThreadReturn(t)
    \/ \E t \in Tasks : ThreadRaise(t)
    \/ CallStop(Stopper)
    \/ \E c \in Ctx, p \in AllDeps : EntrypointStopReturn(c, p)
    \/ \E c \in Ctx : PoolDrained(c)
    \/ \E c \in Ctx, p \in AllDeps : InjectionStopReturn(c, p)
    \/ CallKill(Killer)
    \/ \E c \in Ctx, p \in AllDeps : KillHookReturn(c, p)
    \/ \E c \in Ctx : KillTimeout(c)
    \/ \E c \in Ctx : KillNext(c)
    \/ \E c \in Callers : CallWait(c)
    \/ \E c \in Callers : WaitWake(c)

Spec == Init /\ [][Next]_vars

\* kill() against everything that runs beside it (workers, managed threads,
\* a stop(), a kill() from the orchestration layer, the kill() of a failing
\* thread's exit handler), with the scheduling eventlet's hub guarantees to a
\* kill(): the kill timeout's timer fires, and a greenthread that called
\* gt.kill() is scheduled again.  Nothing makes a provider return from
\* kill(exc).
LiveInit == Constructed(1, {"ep1"}, {"inj1"})

LiveNext ==
    \/ \E e \in EntrypointUniverse : SpawnWorker(e, TRUE)
    \/ \E t \in Tasks : SpawnWorkerResume(t)
    \/ \E t \in Tasks : WorkerStart(t)
    \/ \E t \in Tasks, p \in AllDeps : HookReturn(t, p)
    \/ \E t \in Tasks, p \in AllDeps : HookRaise(t, p)
    \/ \E t \in Tasks : MethodReturn(t)
    \/ \E t \in Tasks : HandleResultReturn(t)
    \/ SpawnManagedThread
    \/ \E t \in Tasks : ThreadReturn(t)
    \/ \E t \in Tasks : ThreadRaise(t)
    \/ CallStop(Stopper)
    \/ \E c \in Ctx, p \in AllDeps : EntrypointStopReturn(c, p)
    \/ \E c \in Ctx : PoolDrained(c)
    \/ \E c \in Ctx, p \in AllDeps : InjectionStopReturn(c, p)
    \/ CallKill(Killer)
    \/ \E c \in Ctx, p \in AllDeps : KillHookReturn(c, p)
    \/ \E c \in Ctx : KillTimeout(c)
    \/ \E c \in Ctx : KillNext(c)

LiveSpec ==
    /\ LiveInit /\ [][LiveNext]_vars
    /\ \A c \in Ctx : WF_vars(KillTimeout(c)) /\ WF_vars(KillNext(c))

\* A graceful stop() against workers and managed threads that may fail, with
\* a wait() beside it; no kill() from the orchestration layer.
StopNext ==
    \/ \E e \in EntrypointUniverse : SpawnWorker(e, TRUE)
    \/ \E t \in Tasks : SpawnWorkerResume(t)
    \/ \E t \in Tasks : WorkerStart(t)
    \/ \E t \in Tasks, p \in AllDeps : HookReturn(t, p)
    \/ \E t \in Tasks, p \in AllDeps : HookRaise(t, p)
    \/ \E t \in Tasks : MethodReturn(t)
    \/ \E t \in Tasks : HandleResultReturn(t)
    \/ SpawnManagedThread
    \/ \E t \in Tasks : ThreadReturn(t)
    \/ \E t \in Tasks : ThreadRaise(t)
    \/ CallStop(Stopper)
    \/ \E c \in Ctx, p \in AllDeps : EntrypointStopReturn(c, p)
    \/ \E c \in Ctx : PoolDrained(c)
    \/ \E c \in Ctx, p \in AllDeps : InjectionStopReturn(c, p)
    \/ \E c \in Ctx, p \in AllDeps : KillHookReturn(c, p)
    \/ \E c \in Ctx : KillTimeout(c)
    \/ \E c \in Ctx : KillNext(c)
    \/ CallWait(Killer)
    \/ WaitWake(Killer)

StopSpec == Init /\ [][StopNext]_vars

\* The life cycle as the orchestration layer drives it: start(), with
\* providers whose hooks may raise; then workers and managed threads, a
\* stop(), a wait(), and the runner's kill().
LifecycleInit == Constructed(2, {"ep1"}, {"inj1"})

LifecycleNext ==
    \/ CallStart(Killer)
    \/ \E c \in Callers, p \in AllDeps : PrepareReturn(c, p)
    \/ \E c \in Callers, p \in AllDeps : StartReturn(c, p)
    \/ \E c \in Callers, p \in AllDeps : StartHookRaise(c, p)
    \/ \E c \in Callers, p \in AllDeps : StopHookRaise(c, p)
    \/ RunnerKill(Killer)
    \/ \E e \in EntrypointUniverse : SpawnWorker(e, FALSE)
    \/ \E t \in Tasks : WorkerStart(t)
    \/ \E t \in Tasks, p \in AllDeps : HookReturn(t, p)
    \/ \E t \in Tasks : MethodReturn(t)
    \/ SpawnManagedThread
    \/ \E t \in Tasks : ThreadReturn(t)
    \/ CallStop(Stopper)
    \/ \E c \in Ctx, p \in AllDeps : EntrypointStopReturn(c, p)
    \/ \E c \in Ctx : PoolDrained(c)
    \/ \E c \in Ctx, p \in AllDeps : InjectionStopReturn(c, p)
    \/ \E c \in Ctx : KillNext(c)
    \/ \E c \in Callers : CallWait(c)
    \/ \E c \in Callers : WaitWake(c)

LifecycleSpec == LifecycleInit /\ [][LifecycleNext]_vars

\* Containers built from every kind of 'max_workers' entry: none, 0, a value
\* below, at and above the default; workers are then spawned into the pool.
ConfigValues == {Absent, 0, 1, 2, MAX_WORKERS_DEFAULT, MAX_WORKERS_DEFAULT + 1}

ConfigInit == \E cfg \in ConfigValues : Constructed(cfg, {"ep1"}, {"inj1"})

ConfigNext ==
    \/ \E e \in EntrypointUniverse : SpawnWorker(e, FALSE)
    \/ \E t \in Tasks : SpawnWorkerResume(t)
    \/ \E t \in Tasks : WorkerStart(t)
    \/ \E t \in Tasks, p \in AllDeps : HookReturn(t, p)
    \/ \E t \in Tasks : MethodReturn(t)
    \/ \E t \in Tasks : MethodRaise(t)

ConfigSpec == ConfigInit /\ [][ConfigNext]_vars

\* The worker step sequence: one entrypoint, two injections, workers with and
\* without a result handler; the only kill() is the one a failing worker's
\* exit handler calls.
WorkerInit == \E cfg \in {1, 2} : Constructed(cfg, {"ep1"}, {"inj1", "inj2"})

WorkerNext ==
    \/ \E e \in EntrypointUniverse, hr \in BOOLEAN : SpawnWorker(e, hr)
    \/ \E t \in Tasks : SpawnWorkerResume(t)
    \/ \E t \in Tasks : WorkerStart(t)
    \/ \E t \in Tasks, p \in AllDeps : HookReturn(t, p)
    \/ \E t \in Tasks, p \in AllDeps : HookRaise(t, p)
    \/ \E t \in Tasks : MethodReturn(t)
    \/ \E t \in Tasks : MethodRaise(t)
    \/ \E t \in Tasks : HandleResultReturn(t)
    \/ \E t \in Tasks : HandleResultRaise(t)
    \/ \E c \in Ctx, p \in AllDeps : KillHookReturn(c, p)
    \/ \E c \in Ctx : KillTimeout(c)
    \/ \E c \in Ctx : KillNext(c)

WorkerSpec == WorkerInit /\ [][WorkerNext]_vars

\* ------------------------------------------------------------------ claims
StopInvocations == {c \in Ctx : inv[c].op = "stop"}

\* C1: in a graceful stop() the phases are sequential: stop() has returned on
\* every entrypoint before the container waits for the pool to drain (and at
\* every later point of that stop()), and, provided no entrypoint spawned a
\* worker after its stop() returned, the pool holds no worker when waitall()
\* has let stop() go on and while stop() is in the injections' stop().
C1_StopPhasesSequential ==
    \A c \in StopInvocations :
        /\ inv[c].pc \in {"waitall", "drained", "inj_stop", "killing"}
               => Entrypoints \subseteq stopped_eps
        /\ inv[c].pc \in {"ep_stop", "waitall"} => inv[c].pending \cap Injections = {}
        /\ (inv[c].pc \in {"drained", "inj_stop"} /\ ~lateSpawn)
               => coroutines_running = {}

\* A stop() that had to wait for an in-flight worker has been let go by the
\* drained pool and is about to stop the injections.
C1_Witness ==
    /\ inv[Stopper].op = "stop" /\ inv[Stopper].pc = "drained"
    /\ ~lateSpawn
    /\ \E t \in Tasks : task[t].kind = "worker" /\ task[t].outcome = "ok"

\* C2: stop() or kill(exc) called once _died has been sent is a no-op: the
\* call returns at once, no provider's stop() or kill() is called, no thread
\* is force-killed, _died is not sent again and what it was sent with stays.
C2_TerminalCallIsNoop ==
    [][\A c \in Ctx :
         (Ready /\ inv[c].pc = "idle" /\ inv'[c].op \in {"stop", "kill"})
         => /\ inv'[c].pc = "returned" /\ inv'[c].result = "noop"
            /\ inv'[c].pending = {} /\ inv'[c].tokill = {}
            /\ died' = died /\ fired' = fired
            /\ \A t \in Tasks : task'[t].outcome = GreenletExit
                                    => task[t].outcome = GreenletExit]_vars

\* stop() was called after kill("boom") had ended the container.
C2_Witness ==
    /\ inv[Stopper].op = "stop" /\ inv[Stopper].result = "noop"
    /\ died = [ready |-> TRUE, exc |-> CallerCause(Killer)]

\* The exception the kill() that runs in context c was called with.
CauseOf(c) == IF c \in Callers THEN CallerCause(c) ELSE TaskError(c)

\* C3: a wait() that is over was over only after _died had been sent, and it
\* reports how the container ended: ended by a kill(cause), it raised exactly
\* that cause; ended by stop(), it returned normally.
C3_WaitReportsEnding ==
    \A c \in Callers :
        (inv[c].op = "wait" /\ inv[c].pc \in {"returned", "raised"})
        => /\ Ready
           /\ Len(fired) >= 1
           /\ IF fired[1].op = "kill"
              THEN inv[c].pc = "raised" /\ inv[c].result = CauseOf(fired[1].by)
              ELSE inv[c].pc = "returned" /\ inv[c].result = None

\* A wait() has raised the cause of the kill("boom") that ended
\* the container.
C3_Witness ==
    /\ inv[Stopper].op = "wait" /\ inv[Stopper].pc = "raised"
    /\ inv[Stopper].result = CallerCause(Killer)
    /\ inv[Killer].op = "kill" /\ inv[Killer].result = "done"

\* C4: never more than max_workers workers are in flight; a spawn_worker call
\* blocks exactly when max_workers workers are in flight at the call; a
\* blocked call stays blocked while they all are, and can go on, and then
\* starts its worker, as soon as fewer are.
C4_PoolBoundsWorkers ==
    /\ [](Cardinality(InFlight) <= max_workers)
    /\ [][\A t \in Tasks :
            (task[t].kind = "none" /\ task'[t].kind = "worker")
            => (task'[t].pc = "blocked"
                   <=> Cardinality(InFlight) = max_workers)]_vars
    /\ [][\A t \in Tasks :
            (task[t].pc = "blocked" /\ task'[t].pc # "blocked")
            => (Cardinality(InFlight) < max_workers /\ t \in InFlight')]_vars
    /\ [](\A t \in Tasks :
            (task[t].pc = "blocked" /\ Cardinality(InFlight) < max_workers)
            => ENABLED SpawnWorkerResume(t))

\* A spawn_worker call is blocked behind a full pool.
C4_Witness ==
    \E t \in Tasks : /\ task[t].pc = "blocked"
                     /\ Cardinality(InFlight) = max_workers

\* Hook h is part of worker t's step sequence (the result handler only when
\* one was supplied); it has been called on some target; it has finished on
\* every target.
Applies(t, h) == h # "handle_result" \/ task[t].handle_result
Started(t, h) == \E p \in HookTargets(h) : Count(called[t], <<h, p>>) > 0
Finished(t, h) == \A p \in HookTargets(h) : Count(returned[t], <<h, p>>) = 1

\* C5: for each worker the steps happen in the order inject, worker_setup,
\* method, result handler (if supplied), worker_result, worker_teardown,
\* release: a step that has begun applies to the worker, has been called once
\* on every provider it fans out to and on nothing else, and every earlier
\* step of the worker has finished on every one of its providers.
C5_WorkerStepsInOrder ==
    \A t \in Tasks :
        (task[t].kind = "worker" /\ Alive(t))
        => /\ \A h \in HookNames :
                Started(t, h)
                => /\ Applies(t, h)
                   /\ \A p \in HookTargets(h) : Count(called[t], <<h, p>>) = 1
                   /\ \A g \in HookNames :
                        (Index(g) < Index(h) /\ Applies(t, g)) => Finished(t, g)
           /\ \A k \in HookKeys :
                k[2] \notin HookTargets(k[1]) => Count(called[t], k) = 0

\* A worker with a result handler is in its last step, release, which one of
\* the two injections has completed.
C5_Witness ==
    \E t \in Tasks : /\ task[t].pc = "release" /\ task[t].handle_result
                     /\ task[t].exc = None
                     /\ Cardinality(task[t].pending) = 1

\* The step in which worker t's greenthread ends.
Exits(t) == task[t].kind = "worker" /\ task[t].pc # "dead" /\ task'[t].pc = "dead"

\* C6 (as claimed, for the exits it names): a worker in which inject has run
\* and whose greenthread ends in the result handler, in worker_result or in
\* worker_teardown does not end without release having been called on every
\* injection.
C6_ReleaseOnEveryExit ==
    [][\A t \in Tasks :
         (/\ Exits(t)
          /\ Finished(t, "inject")
          /\ task[t].pc \in {"handle_result", "worker_result", "worker_teardown"})
         => \A p \in Injections : Count(called[t], <<"release", p>>) >= 1]_vars

\* C7: a worker whose method raised goes on to the result handler (if
\* supplied) or worker_result, called with (None, error); when it then runs to
\* its end with no hook raising, worker_result and release have been called
\* exactly once on every injection, and the result handler exactly once, each
\* with (None, error) and nothing else.
C7_CallErrorStillReported ==
    /\ [][\A t \in Tasks :
            (task[t].pc = "method" /\ task'[t].pc \notin {"method", "dead"})
            => /\ task'[t].pc = NextHook("method", task[t].handle_result)
               /\ <<task'[t].pc, task'[t].result, task'[t].exc>> \in task'[t].args
               /\ (task'[t].result = None) # (task'[t].exc = None)]_vars
    /\ [][\A t \in Tasks :
            (Exits(t) /\ task[t].exc = CallError /\ task'[t].outcome = "ok")
            => /\ \A p \in Injections :
                    /\ Count(called[t], <<"worker_result", p>>) = 1
                    /\ Count(returned[t], <<"worker_result", p>>) = 1
                    /\ Count(called[t], <<"release", p>>) = 1
               /\ Count(called[t], <<"handle_result", Handler>>)
                      = (IF task[t].handle_result THEN 1 ELSE 0)
               /\ task[t].args
                      = {<<"worker_result", None, CallError>>}
                        \cup (IF task[t].handle_result
                              THEN {<<"handle_result", None, CallError>>}
                              ELSE {})]_vars

\* A worker with a result handler whose method raised has run to its end.
C7_Witness ==
    \E t \in Tasks : /\ task[t].kind = "worker" /\ task[t].pc = "dead"
                     /\ task[t].exc = CallError /\ task[t].outcome = "ok"

\* C8: a call error never becomes a container failure: no greenthread ends
\* with it, no kill() is called with it, _died is never sent with it; the step
\* in which the method raises leaves the worker in flight and the registry,
\* the pool, _died and every stop()/kill() as they were; and the exit handler
\* of a worker that ran on to its end calls no kill().
C8_CallErrorNotEscalated ==
    /\ [](/\ died.exc # CallError
          /\ \A c \in Ctx : inv[c].cause # CallError
          /\ \A t \in Tasks : task[t].outcome # CallError)
    /\ [](\A t \in Tasks :
            (task[t].pc = "dead" /\ task[t].exc = CallError
                 /\ task[t].outcome = "ok")
            => inv[t] = Idle)
    /\ [][\A t \in Tasks :
            (task[t].pc = "method" /\ task'[t].exc = CallError)
            => /\ t \in InFlight'
               /\ UNCHANGED <<died, fired, inv, active_threads,
                              coroutines_running>>]_vars

\* A worker's method has raised, the worker has ended normally, the container
\* is not terminal and another worker is running.
C8_Witness ==
    \E t, u \in Tasks :
        /\ task[t].pc = "dead" /\ task[t].exc = CallError
        /\ task[t].outcome = "ok" /\ inv[t] = Idle
        /\ u \in InFlight /\ u > t /\ ~Ready

\* The exit handler of task t has called kill(TaskError(t)) on a container
\* that was not terminal.
Escalated(t) == inv[t].op = "kill" /\ inv[t].result # "noop"

\* C9 (as claimed, for the first kill() the container sees): once the error
\* that escaped task t has been escalated on a container that was not
\* terminal, the container ends killed with exactly that error: when it is
\* terminal, _died carries TaskError(t), and that is what a wait() that is
\* over has raised.
C9_TaskErrorIsTheCause ==
    \A t \in Tasks :
        (Escalated(t) /\ inv[t].timer = 1 /\ Ready)
        => /\ died.exc = TaskError(t)
           /\ \A c \in Callers :
                (inv[c].op = "wait" /\ inv[c].pc # "waiting")
                => (inv[c].pc = "raised" /\ inv[c].result = TaskError(t))

C11_RegistryEmptyAtSignal ==
    [][fired' # fired => active_threads' = {}]_vars

\* C12: the pool holds at most 10 workers when the configuration has no
\* 'max_workers' entry or the entry is 0, and at most the configured number
\* when that is positive; no more workers than that are ever in flight.
C12_MaxWorkersFromConfig ==
    /\ config \in {Absent, 0} => max_workers = 10
    /\ config > 0 => max_workers = config
    /\ Cardinality(InFlight) <= max_workers

\* A container configured with max_workers = 0 runs more than one worker at a
\* time, its pool being of the default size.
C12_Witness ==
    /\ config = 0
    /\ max_workers = 10
    /\ Cardinality(InFlight) > 1

\* A kill() has been called on the container and has ended or is under way.
KillBegun ==
    \E d \in Ctx : inv[d].op = "kill" /\ inv[d].pc # "idle"

\* C13 (as claimed): when an exception raised by a provider's prepare(),
\* start() or stop() has left start() or stop(), the container has been
\* killed or is being killed, so that wait() raises.
C13_LifecycleErrorKills ==
    \A c \in Callers :
        (inv[c].op \in {"start", "stop"} /\ inv[c].pc = "raised"
             /\ inv[c].result = HookError)
        => (KillBegun \/ (Ready /\ died.exc # None))

\* C20: in start(), prepare() has returned on every provider before start()
\* is called on any provider, start() is called on a provider only after
\* prepare() was, and start() has returned on every provider when the
\* container's start() returns.
C20_PrepareBeforeStart ==
    /\ lifecycle.start_called # {} => lifecycle.prepare_done = AllDeps
    /\ lifecycle.prepare_done \subseteq lifecycle.prepare_called
    /\ lifecycle.start_done \subseteq lifecycle.start_called
    /\ \A c \in Callers :
         (inv[c].op = "start" /\ inv[c].pc = "returned")
         => lifecycle.start_done = AllDeps

\* start() has returned: prepare() and start() have returned on the entrypoint
\* and on the injection.
C20_Witness ==
    /\ inv[Killer].op = "start" /\ inv[Killer].pc = "returned"
    /\ lifecycle.prepare_done = {"ep1", "inj1"}
    /\ lifecycle.start_done = {"ep1", "inj1"}

\* C14 (as claimed): once ServiceRunner.kill() on a started runner is over,
\* the container the runner created is terminal and a wait() does not block.
C14_RunnerKillEndsContainers ==
    \A c \in Callers :
        (inv[c].op = "runner_kill" /\ inv[c].pc \in {"returned", "raised"}
             /\ RunnerHasContainers /\ inv[c].result # "noop")
        => Ready

\* C15: _died is sent at most once, and once sent it never changes, whatever
\* stop(), kill() and failing tasks do: the event is ready exactly when one
\* send has been made, and it carries what that send gave it.
C15_SignalFiresOnce ==
    /\ [](Len(fired) <= 1)
    /\ [](Ready <=> Len(fired) = 1)
    /\ [](Ready => died.exc = fired[1].exc)
    /\ [][Ready => (died' = died /\ fired' = fired)]_vars

\* A kill() by a failing task sent _died while a stop() and the kill() of a
\* second failing task were blocked; both resumed later and _died is as the
\* first kill() sent it.
C15_Witness ==
    /\ Len(fired) = 1 /\ fired[1].op = "kill"
    /\ inv[Stopper].op = "stop" /\ inv[Stopper].pc = "raised"
    /\ \E t \in Tasks :
         /\ t # fired[1].by
         /\ inv[t].op = "kill" /\ inv[t].pc = "raised"
    /\ died = [ready |-> TRUE, exc |-> fired[1].exc]

\* C16: the registry holds exactly the greenthreads that have been spawned and
\* have not ended; a greenthread enters it in the step that spawns it and
\* leaves it in the step in which it ends (normally, killed, or by an error),
\* in which it was still registered; nothing else adds or removes.
C16_RegistryTracksLifetime ==
    /\ [](active_threads = {t \in Tasks : Alive(t)})
    /\ [][\A t \in Tasks :
            /\ (t \notin active_threads /\ t \in active_threads')
               => (task[t].pc \in {"unborn", "blocked"}
                     /\ task'[t].pc \in {"spawned", "running"})
            /\ (t \in active_threads /\ t \notin active_threads')
               => (task[t].pc # "dead" /\ task'[t].pc = "dead")
            /\ (task[t].pc # "dead" /\ task'[t].pc = "dead")
               => (t \in active_threads /\ t \notin active_threads')
            /\ (task[t].pc = "dead" => task'[t].pc = "dead")]_vars

\* One thread has ended by an error and one by the container's force-kill;
\* neither is registered any more.
C16_Witness ==
    /\ \E t \in Tasks : task[t].pc = "dead" /\ task[t].outcome = TaskError(t)
    /\ \E t \in Tasks : task[t].pc = "dead" /\ task[t].outcome = GreenletExit
    /\ active_threads = {}

\* C17 (as claimed, for workers whose inject has completed): a worker frees
\* its pool slot only when release has completed on every injection, that is
\* in the step in which the last release returns and _run_worker ends.
C17_SlotHeldUntilRelease ==
    [][\A t \in Tasks :
         (/\ t \in coroutines_running
          /\ t \notin coroutines_running'
          /\ Finished(t, "inject"))
         => /\ task[t].pc = "release"
            /\ \A p \in Injections :
                  Count(returned[t], <<"release", p>>) = 1 \/ task[t].pending = {p}
            /\ task'[t].outcome = "ok"]_vars

\* C18: a thread that ended by the container's force-kill calls no kill(); so
\* as long as nobody has called kill(), a stop() that is over has sent _died
\* with no cause, having force-killed what was left, and a wait() that is
\* over has returned normally.
C18_ForceKilledNotEscalated ==
    /\ \A t \in Tasks : task[t].outcome = GreenletExit => inv[t] = Idle
    /\ ~KillBegun
       => /\ \A c \in Callers :
               (inv[c].op = "stop" /\ inv[c].pc \in {"returned", "raised"})
               => /\ inv[c].pc = "returned" /\ inv[c].result = "done"
                  /\ died = [ready |-> TRUE, exc |-> None]
                  /\ fired = <<[by |-> c, op |-> "stop", exc |-> None]>>
                  /\ active_threads \cap inv[c].tokill = {}
          /\ \A c \in Callers :
               (inv[c].op = "wait" /\ inv[c].pc # "waiting")
               => (inv[c].pc = "returned" /\ inv[c].result = None)

\* stop() force-killed a managed thread its providers had left running, sent
\* _died with no cause, and wait() returned normally.
C18_Witness ==
    /\ inv[Stopper].op = "stop" /\ inv[Stopper].result = "done"
    /\ \E t \in Tasks : task[t].kind = "thread" /\ task[t].outcome = GreenletExit
    /\ ~KillBegun
    /\ died = [ready |-> TRUE, exc |-> None]
    /\ inv[Killer].op = "wait" /\ inv[Killer].pc = "returned"
    /\ inv[Killer].result = None

\* Invocation c of stop() force-kills thread t in this step.
StopKills(c, t) ==
    /\ inv[c].op = "stop"
    /\ inv[c].pc \in {"inj_stop", "killing"}
    /\ inv'[c].pc = "killing"
    /\ inv'[c].tokill = (IF inv[c].pc = "killing" THEN inv[c].tokill
                         ELSE active_threads) \ {t}
    /\ task[t].pc # "dead"
    /\ task'[t].pc = "dead"

\* C19: a worker that was in flight when stop() was called has completed
\* before that stop() stops the injections, force-kills or sends _died; stop()
\* never force-kills it; and it ends by a force-kill only when a kill() has
\* been called.
C19_StopSparesInFlightWorkers ==
    /\ [](\A c \in Callers :
            (inv[c].op = "stop"
               /\ (\/ inv[c].pc \in {"drained", "inj_stop", "killing"}
                   \/ inv[c].result = "done"))
            => \A t \in inv[c].inflight : task[t].pc = "dead")
    /\ [][\A c \in Callers, t \in Tasks :
            StopKills(c, t) => t \notin inv[c].inflight]_vars
    /\ [](\A c \in Callers, t \in Tasks :
            (t \in inv[c].inflight /\ task[t].outcome = GreenletExit)
            => KillBegun)

\* A worker was in flight when stop() was called and ran to its end; stop()
\* then force-killed the thread it found left over and sent _died.
C19_Witness ==
    /\ inv[Stopper].op = "stop" /\ inv[Stopper].result = "done"
    /\ \E t \in inv[Stopper].inflight : task[t].outcome = "ok"
    /\ \E t \in Tasks : t \notin inv[Stopper].inflight
                          /\ task[t].outcome = GreenletExit
    /\ ~KillBegun

====
